---- MODULE Spec2Model ----
(***************************************************************************)
(* HealthmateUI chat client: the streaming protocol consumer               *)
(* (ChatInterface.handleFormSubmit + StreamingManager), the transcript     *)
(* (children of the #chat-messages element), the session identity          *)
(* (SessionManager over localStorage) and the startup history load         *)
(* (HistoryManager).                                                       *)
(*                                                                         *)
(* Text is a sequence of one-character strings.  The body of a JSON        *)
(* payload is abstracted to a one-character token whose JSON.parse result  *)
(* is given by JSONParse; the line framing ("data: " prefix, "\n"          *)
(* terminator, split/pop buffering) is modelled character by character.    *)
(***************************************************************************)
EXTENDS Integers, Sequences, FiniteSets, TLC

(***************************************************************************)
(* Bounds of the model.                                                    *)
(***************************************************************************)
MaxDecLines == 2     \* lines in a decoder input text (SpecDecoder)
MaxResolves == 3     \* resolve() calls recorded between resets (SpecSession)
MaxResets == 2       \* reset()/startNew() calls in a run (SpecSession)

(***************************************************************************)
(* Text helpers.                                                           *)
(***************************************************************************)
NL == "\n"

\* chat.js:156  line.startsWith('data: ')
PREFIX == <<"d", "a", "t", "a", ":", " ">>

\* String.prototype.startsWith
StartsWith(s, p) ==
    /\ Len(s) >= Len(p)
    /\ SubSeq(s, 1, Len(p)) = p

\* String.prototype.slice(n)
Slice(s, n) == SubSeq(s, n + 1, Len(s))

\* String.prototype.split('\n'): the segments between newlines, at least one.
RECURSIVE SplitFrom(_, _, _)
SplitFrom(s, i, cur) ==
    IF i > Len(s) THEN <<cur>>
    ELSE IF s[i] = NL THEN <<cur>> \o SplitFrom(s, i + 1, <<>>)
    ELSE SplitFrom(s, i + 1, Append(cur, s[i]))

Split(s) == SplitFrom(s, 1, <<>>)

(***************************************************************************)
(* Protocol events.                                                        *)
(***************************************************************************)
ParseError == [event_type |-> "SyntaxError", text |-> <<>>, error |-> <<>>]

Event(t, txt, err) == [event_type |-> t, text |-> txt, error |-> err]

\* Payload tokens: the JSON texts the service may put after the prefix.
Tokens == {"a", "b", "l", "0", "K", "E", "N", "u", "T", "M", "D", "U", "!"}

\* JSON.parse of a payload (chat.js:158).  Anything that is not one of the
\* well-formed payload tokens fails to parse.
JSONParse(p) ==
    IF Len(p) # 1 THEN ParseError
    ELSE CASE p[1] = "a" -> Event("chunk", <<"a">>, <<>>)
           [] p[1] = "b" -> Event("chunk", <<"b">>, <<>>)
           [] p[1] = "l" -> Event("chunk", <<NL>>, <<>>)
           [] p[1] = "0" -> Event("chunk", <<>>, <<>>)
           [] p[1] = "K" -> Event("complete", <<>>, <<>>)
           [] p[1] = "E" -> Event("error", <<>>, <<"x">>)
           [] p[1] = "N" -> Event("connected", <<>>, <<>>)
           [] p[1] = "u" -> Event("user_message", <<>>, <<>>)
           [] p[1] = "T" -> Event("ai_thinking", <<>>, <<>>)
           [] p[1] = "M" -> Event("ai_message_complete", <<>>, <<>>)
           [] p[1] = "D" -> Event("disconnected", <<>>, <<>>)
           [] p[1] = "U" -> Event("mystery", <<>>, <<>>)
           [] OTHER -> ParseError

\* One serialized event line, with its terminator.
Line(tok) == PREFIX \o <<tok>> \o <<NL>>

(***************************************************************************)
(* The read loop's buffering (chat.js:147-164).                            *)
(***************************************************************************)
\* Faulty variant of KeepBuffer: the incomplete last segment is thrown away.
KeepBufferDropped(segs) == <<>>

\* chat.js:153  buffer = lines.pop() || ''
KeepBuffer(segs) == segs[Len(segs)]

\* Faulty variant of CompleteLines: the incomplete last segment is handled
\* as a line too.
CompleteLinesAndRest(segs) == segs

\* chat.js:152-153  the complete lines of buffer + chunk
CompleteLines(segs) == SubSeq(segs, 1, Len(segs) - 1)

\* chat.js:156-160  a prefixed line whose payload JSON.parse rejects
Malformed(line) ==
    StartsWith(line, PREFIX) /\ JSONParse(Slice(line, 6)) = ParseError

\* Faulty variant of EventsOf: the first unparseable payload ends the loop
\* over the lines (the exception is caught outside the loop).
RECURSIVE EventsOfUntilMalformed(_)
EventsOfUntilMalformed(lines) ==
    IF lines = <<>> THEN <<>>
    ELSE LET line == Head(lines)
         IN IF Malformed(line) THEN <<>>
            ELSE IF StartsWith(line, PREFIX)
            THEN <<JSONParse(Slice(line, 6))>> \o EventsOfUntilMalformed(Tail(lines))
            ELSE EventsOfUntilMalformed(Tail(lines))

\* chat.js:155-163  the events handed to handleStreamingEvent for these lines
RECURSIVE EventsOf(_)
EventsOf(lines) ==
    IF lines = <<>> THEN <<>>
    ELSE LET line == Head(lines)
             rest == EventsOf(Tail(lines))
         IN IF StartsWith(line, PREFIX) /\ JSONParse(Slice(line, 6)) # ParseError
            THEN <<JSONParse(Slice(line, 6))>> \o rest
            ELSE rest

\* chat.js:148-164  one iteration of the loop body on a decoded fragment
ProcessChunk(buffer, chunk) ==
    LET segs == Split(buffer \o chunk)
    IN [buffer |-> KeepBuffer(segs), events |-> EventsOf(CompleteLines(segs))]

(***************************************************************************)
(* The transcript: the children of #chat-messages, in document order.      *)
(* A node is a committed message (user / assistant / error), a pending     *)
(* streaming-response element (eid > 0 names its element in elems), or a   *)
(* panel written by innerHTML (loading, welcome, auth, history).           *)
(* send is the send operation whose handler produced the node (0: none).   *)
(* The transcript element is a scroll container: scrollTop is its scroll   *)
(* offset, its scrollHeight follows from the layout of its children.       *)
(***************************************************************************)
Node(role, content, eid, s) ==
    [role |-> role, content |-> content, eid |-> eid, send |-> s]

\* part_000:73-94  the markup of a fresh streaming-response element
NewElem ==
    [text |-> <<>>, thinkingHidden |-> FALSE, textHidden |-> TRUE,
     typingHidden |-> TRUE, typingDisplayNone |-> FALSE]

\* part_000:6-13  StreamingManager constructor
NewStreamingManager ==
    [isStreaming |-> FALSE, streamingResponse |-> 0, streamingText |-> 0,
     typingIndicator |-> 0, thinkingIndicator |-> 0]

\* The document part a handler works on.
Doc(d, e, m, dis, top) ==
    [dom |-> d, elems |-> e, sm |-> m, disabled |-> dis, threw |-> FALSE,
     scrollTop |-> top]

IsChild(d, eid) == \E i \in 1..Len(d) : d[i].role = "pending" /\ d[i].eid = eid

PendingIdx(d) == {i \in 1..Len(d) : d[i].role = "pending"}

Min(S) == CHOOSE x \in S : \A y \in S : x <= y

\* document.getElementById on an id every streaming-response element carries:
\* the first such element in tree order.
GetElementById(d) ==
    IF PendingIdx(d) = {} THEN 0 ELSE d[Min(PendingIdx(d))].eid

(***************************************************************************)
(* Layout and scrolling of the transcript (message-manager.js:75-91).      *)
(* Heights are in pixels.  A message or a streaming-response element takes *)
(* EntryHeight when its text is one line, and LineHeight more for every    *)
(* line break in its text (<br> in a message, white-space: pre-wrap in the *)
(* streaming text); a panel takes EntryHeight.                             *)
(***************************************************************************)
\* message-manager.js:82
Threshold == 70

ClientHeight == 100  \* clientHeight of #chat-messages
EntryHeight == 100   \* height of a one-line entry of the transcript
LineHeight == 24     \* height of one more line of text in an entry

Max2(a, b) == IF a >= b THEN a ELSE b

Min2(a, b) == IF a <= b THEN a ELSE b

\* the line breaks of a text
Breaks(text) == Cardinality({i \in 1..Len(text) : text[i] = NL})

\* message-manager.js:52-64, part_000:73-94  the height of one child
NodeHeight(n, e) ==
    EntryHeight + LineHeight * Breaks(IF n.role = "pending" THEN e[n.eid].text
                                      ELSE n.content)

RECURSIVE ContentHeight(_, _)
ContentHeight(d, e) ==
    IF d = <<>> THEN 0 ELSE NodeHeight(Head(d), e) + ContentHeight(Tail(d), e)

\* Element.scrollHeight of #chat-messages
ScrollHeight(D) == Max2(ClientHeight, ContentHeight(D.dom, D.elems))

\* the largest scroll offset the container can have
MaxScrollTop(D) == ScrollHeight(D) - ClientHeight

\* the container's scroll offset never exceeds the largest one: it is
\* brought back when the content shrinks
Clamp(D) == [D EXCEPT !.scrollTop = Min2(@, MaxScrollTop(D))]

\* message-manager.js:75-77  scrollTop = scrollHeight, which the container
\* limits to its largest scroll offset
ScrollToBottom(D) == [D EXCEPT !.scrollTop = MaxScrollTop(D)]

\* message-manager.js:85  distance from the bottom
DistanceFromBottom(D) == ScrollHeight(D) - D.scrollTop - ClientHeight

\* message-manager.js:80-91
SmartScrollToBottom(D) ==
    IF DistanceFromBottom(D) <= Threshold THEN ScrollToBottom(D) ELSE D

\* message-manager.js:10-26  addUserMessage / addAssistantMessage / addErrorMessage
AppendMessage(D, role, content, s) ==
    ScrollToBottom([D EXCEPT !.dom = Append(@, Node(role, content, 0, s))])

\* part_000:69-105
StartStreaming(D, s) ==
    LET eid == Len(D.elems) + 1
        d2 == Append(D.dom, Node("pending", <<>>, eid, s))
        found == GetElementById(d2)
    IN ScrollToBottom(
          [D EXCEPT !.dom = d2,
                    !.elems = Append(@, NewElem),
                    !.sm = [isStreaming |-> TRUE, streamingResponse |-> eid,
                            streamingText |-> found, typingIndicator |-> found,
                            thinkingIndicator |-> found]])

\* part_000:110-112
HideTyping(D) ==
    IF D.sm.typingIndicator # 0
    THEN [D EXCEPT !.elems[D.sm.typingIndicator].typingDisplayNone = TRUE]
    ELSE D

\* part_000:115
FinalText(D) ==
    IF D.sm.streamingText # 0 THEN D.elems[D.sm.streamingText].text ELSE <<>>

\* Faulty variant of ReplaceChild: the old child is removed and the new one
\* is appended at the end.
ReplaceChildAtEnd(d, eid, node) ==
    Append(SelectSeq(d, LAMBDA n : ~(n.role = "pending" /\ n.eid = eid)), node)

\* Node.replaceChild(newChild, oldChild) on the transcript
ReplaceChild(d, eid, node) ==
    [i \in 1..Len(d) |->
        IF d[i].role = "pending" /\ d[i].eid = eid THEN node ELSE d[i]]

\* part_000:122-126
CleanUp(D) ==
    [D EXCEPT !.sm.streamingResponse = 0, !.sm.streamingText = 0,
              !.sm.typingIndicator = 0, !.sm.thinkingIndicator = 0]

\* part_000:107-129.  replaceChild throws NotFoundError when the streaming
\* response is no longer a child of the transcript: the references are then
\* not cleaned up, the transcript is not scrolled, and the caller sees the
\* exception (threw).
CompleteStreaming(D, s) ==
    LET D1 == HideTyping([D EXCEPT !.sm.isStreaming = FALSE])
        finalText == FinalText(D1)
        sr == D1.sm.streamingResponse
    IN IF finalText # <<>> /\ sr # 0
       THEN IF IsChild(D1.dom, sr)
            THEN ScrollToBottom(CleanUp([D1 EXCEPT
                    !.dom = ReplaceChild(@, sr, Node("assistant", finalText, 0, s))]))
            ELSE [D1 EXCEPT !.threw = TRUE]
       ELSE ScrollToBottom(CleanUp(D1))

\* part_000:37-41  the first-chunk flip
Flip(D) ==
    IF D.sm.thinkingIndicator # 0 /\ ~D.elems[D.sm.thinkingIndicator].thinkingHidden
    THEN [D EXCEPT !.elems[D.sm.thinkingIndicator].thinkingHidden = TRUE,
                   !.elems[D.sm.streamingText].textHidden = FALSE,
                   !.elems[D.sm.typingIndicator].typingHidden = FALSE]
    ELSE D

\* part_000:27-46
HandleChunk(D, text, s) ==
    IF text = <<>> THEN D
    ELSE LET D1 == IF ~D.sm.isStreaming THEN StartStreaming(D, s) ELSE D
             D2 == Flip(D1)
         IN SmartScrollToBottom(
               [D2 EXCEPT !.elems[D2.sm.streamingText].text = @ \o text])

ErrPrefix == <<"E", ":">>

\* part_000:17-25, 49-50, 61-62  the event types whose case is a bare break
Acknowledged ==
    {"connected", "user_message", "ai_thinking", "ai_message_complete",
     "disconnected"}

\* Faulty variant of HandleStreamingEvent: `disconnected` completes the
\* streaming display.
HandleStreamingEventDisconnectCompletes(D, ev, s) ==
    CASE ev.event_type = "chunk" -> HandleChunk(D, ev.text, s)
      [] ev.event_type = "complete" -> CompleteStreaming(D, s)
      [] ev.event_type = "error" ->
            CompleteStreaming(AppendMessage(D, "error", ErrPrefix \o ev.error, s), s)
      [] ev.event_type = "disconnected" -> CompleteStreaming(D, s)
      [] OTHER -> D

\* part_000:15-67  the default case only logs a warning
HandleStreamingEvent(D, ev, s) ==
    CASE ev.event_type = "chunk" -> HandleChunk(D, ev.text, s)
      [] ev.event_type = "complete" -> CompleteStreaming(D, s)
      [] ev.event_type = "error" ->
            CompleteStreaming(AppendMessage(D, "error", ErrPrefix \o ev.error, s), s)
      [] ev.event_type \in Acknowledged -> D
      [] OTHER -> D

\* Elements that are neither in the transcript nor referenced by the
\* StreamingManager are unreachable garbage: their content is forgotten.
Live(D, eid) ==
    \/ IsChild(D.dom, eid)
    \/ eid \in {D.sm.streamingResponse, D.sm.streamingText,
                D.sm.typingIndicator, D.sm.thinkingIndicator}

Collect(D) ==
    [D EXCEPT !.elems = [i \in 1..Len(D.elems) |->
                            IF Live(D, i) THEN D.elems[i] ELSE NewElem]]

\* message-manager.js:93-95
ClearMessages == <<>>

\* message-manager.js:97-104
LoadingIndicator == <<Node("loading", <<>>, 0, 0)>>

\* message-manager.js:106-136
WelcomePanel == <<Node("welcome", <<>>, 0, 0)>>

\* message-manager.js:138-155
AuthenticationErrorPanel == <<Node("auth", <<>>, 0, 0)>>

\* message-manager.js:157-160  setContent(html) with the server's snapshot
HistoryContent == <<Node("history", <<"h">>, 0, 0)>>

\* history-manager.js:140  the greeting of a new chat session
NewSessionGreeting == <<"g">>

(***************************************************************************)
(* Session identity (message-manager.js:173-246).  A stored value is       *)
(* [len, nonce]: its length and what tells two generated ids apart (the    *)
(* timestamp and random parts).  len = -1 is null (no item).               *)
(***************************************************************************)
Null == [len |-> -1, nonce |-> 0]

EmptyString == [len |-> 0, nonce |-> 0]

\* a stored id shorter than the minimum, left by something else than this code
ShortId == [len |-> 20, nonce |-> 0]

\* a well-formed id stored by an earlier page load
StoredId == [len |-> 53, nonce |-> 0]

\* message-manager.js:190  !sessionId
Falsy(v) == v.len <= 0

\* message-manager.js:198
MinIdLen == 33

\* message-manager.js:195  'healthmate-chat-'.length
IdHeadLen == 16

\* message-manager.js:192  Date.now().toString().length
TimestampLen == 13

\* message-manager.js:193-194  lengths of Math.random().toString(36).substring(2, 17)
RandLens == {0, 11}

\* message-manager.js:198-200  each turn of the loop appends zero or one
\* character; the loop ends when the length reaches the minimum.
RECURSIVE Pad(_)
Pad(len) == IF len < MinIdLen THEN Pad(len + 1) ELSE len

\* message-manager.js:192-200
GenerateId(nonce, r1, r2) ==
    [len |-> Pad(IdHeadLen + TimestampLen + 1 + r1 + 1 + r2), nonce |-> nonce]

\* message-manager.js:185-207  the returned id, the storage and the next nonce
GetOrCreateSessionId(stored, nonce, r1, r2) ==
    IF Falsy(stored)
    THEN [id |-> GenerateId(nonce, r1, r2), storage |-> GenerateId(nonce, r1, r2),
          nonce |-> nonce + 1]
    ELSE [id |-> stored, storage |-> stored, nonce |-> nonce]

(***************************************************************************)
(* State.                                                                  *)
(***************************************************************************)
VARIABLES
    dom,            \* children of #chat-messages
    elems,          \* streaming-response elements ever created, by eid
    sm,             \* StreamingManager fields
    inputValue,     \* messageInput.value
    inputDisabled,  \* messageInput.disabled = sendButton.disabled
    storage,        \* localStorage['healthmate_chat_session_id']
    sessionId,      \* SessionManager.sessionId
    isNewSessionJustCreated,
    nextNonce,      \* tells generated ids apart
    send,           \* the handleFormSubmit invocations
    hist,           \* the startup history load
    ops,            \* clearChat / startNewChatSession invocations awaiting
    reads,          \* reads that delivered data so far, over all sends
    scrollTop,      \* scrollTop of #chat-messages
    dec,            \* the read loop run on its own (SpecDecoder)
    returned,       \* ids returned by resolve() since the last reset (SpecSession)
    tabs            \* the SessionManagers of the tabs of one origin (SpecTabs)

vars == <<dom, elems, sm, inputValue, inputDisabled, storage, sessionId,
          isNewSessionJustCreated, nextNonce, send, hist, ops, reads, scrollTop,
          dec, returned, tabs>>

docVars == <<dom, elems, sm, scrollTop>>
sessVars == <<storage, sessionId, isNewSessionJustCreated, nextNonce>>

MaxTabs == 2         \* tabs of one origin (SpecTabs)
MaxSends == 2        \* handleFormSubmit invocations that pass the empty check
MaxReads == 2        \* reads that deliver data, over all sends
MaxOps == 1          \* confirmed clearChat / startNewChatSession invocations
MaxRetries == 3      \* retries of the history load that are counted

Sends == 1..MaxSends

Tabs == 1..MaxTabs

\* message-manager.js:174-177  a tab's SessionManager before initialize();
\* read is the local variable sessionId of a getOrCreateSessionId call in
\* progress, clobbered (observation only) whether a call of this tab stored
\* a generated id over an id that was already persisted
IdleTab ==
    [pc |-> "start", sessionId |-> Null, read |-> Null, clobbered |-> FALSE]

NoTabs == [t \in Tabs |-> IdleTab]

\* the startup history load before its timer fires: its position, the
\* history requests issued, whether it was skipped, the snapshots written to
\* the transcript, the outcome of the last response (observation), the
\* times it has rescheduled itself for want of a session id (counted up to
\* MaxRetries), and the session id of the last request issued
NewHist ==
    [pc |-> "timer", requests |-> 0, skipped |-> FALSE, replaced |-> 0,
     last |-> "", retries |-> 0, sid |-> Null]

\* no resetChatSession call has settled yet
NoReset == [outcome |-> "", result |-> ""]

\* clearChat / startNewChatSession invocations awaiting their notification,
\* started and completed so far, how the last resetChatSession ended, and
\* the id that was current when the last invocation began and whether the
\* last confirmation dialog was declined (observation)
NewOps ==
    [clearChat |-> 0, newChat |-> 0, started |-> 0, newDone |-> 0,
     reset |-> NoReset, before |-> Null, declined |-> FALSE]

\* What a send has seen so far (observation only, no effect on the program):
\* settled: a complete or error event was processed;  late: a chunk processed
\* after that changed the transcript;  shape: start, chunks (one or more
\* non-empty chunks), happy (those followed by one complete), other;
\* chunks: the chunk texts in arrival order;  malformed: a prefixed line with
\* an unparseable payload was read;  quiet: an event that is neither a
\* chunk nor a terminal event was processed;  residue: the stream ended
\* with text in the buffer.
NewSeen ==
    [settled |-> FALSE, late |-> FALSE, shape |-> "start", chunks |-> <<>>,
     malformed |-> FALSE, quiet |-> FALSE, residue |-> FALSE]

IdleSend ==
    [pc |-> "idle", buffer |-> <<>>, msg |-> <<>>,
     sid |-> Null, outcome |-> "", seen |-> NewSeen]

NextShape(shape, ev) ==
    CASE ev.event_type = "chunk" /\ ev.text # <<>> ->
            IF shape \in {"start", "chunks"} THEN "chunks" ELSE "other"
      [] ev.event_type = "complete" ->
            IF shape = "chunks" THEN "happy" ELSE "other"
      [] ev.event_type \in {"chunk", "error"} -> "other"
      [] OTHER -> shape

\* chat.js:155-164 on one event, with what the send has seen
HandleOne(X, ev, s) ==
    LET D2 == [HandleStreamingEvent(X.D, ev, s) EXCEPT !.threw = FALSE]
        isChunk == ev.event_type = "chunk"
    IN [D |-> D2,
        seen |-> [settled |-> X.seen.settled \/ ev.event_type \in {"complete", "error"},
                  late |-> X.seen.late
                           \/ (X.seen.settled /\ isChunk
                               /\ (D2.dom # X.D.dom \/ D2.elems # X.D.elems)),
                  shape |-> NextShape(X.seen.shape, ev),
                  chunks |-> IF isChunk THEN X.seen.chunks \o ev.text
                             ELSE X.seen.chunks,
                  malformed |-> X.seen.malformed,
                  quiet |-> X.seen.quiet
                            \/ ev.event_type \notin {"chunk", "complete", "error"},
                  residue |-> X.seen.residue]]

RECURSIVE HandleEvents(_, _, _)
HandleEvents(X, evs, s) ==
    IF evs = <<>> THEN X
    ELSE HandleEvents(HandleOne(X, Head(evs), s), Tail(evs), s)

\* String.prototype.trim
RECURSIVE TrimLeft(_)
TrimLeft(v) == IF v # <<>> /\ Head(v) = " " THEN TrimLeft(Tail(v)) ELSE v

RECURSIVE TrimRight(_)
TrimRight(v) ==
    IF v # <<>> /\ v[Len(v)] = " " THEN TrimRight(SubSeq(v, 1, Len(v) - 1)) ELSE v

\* Faulty variant of GetCurrentMessage: the value is not trimmed.
GetCurrentMessageUntrimmed(v) == v

\* ui-manager.js:258-260
GetCurrentMessage(v) == TrimRight(TrimLeft(v))

\* what the user may have typed when a submit happens
InputValues == {<<>>, <<" ">>, <<"h", " ">>}

SendErrPrefix == <<"S", ":">>

\* Faulty variant of Finally: the input is not re-enabled.
FinallyKeepsDisabled(D, s) ==
    IF D.sm.isStreaming THEN CompleteStreaming(D, s) ELSE D

\* Faulty variant of Finally: the pending entry is discarded instead of promoted.
FinallyDiscards(D, s) ==
    LET D1 == [D EXCEPT !.disabled = FALSE]
    IN IF D1.sm.isStreaming
       THEN CleanUp([D1 EXCEPT !.sm.isStreaming = FALSE,
               !.dom = SelectSeq(@, LAMBDA n : ~(n.role = "pending"
                                     /\ n.eid = D1.sm.streamingResponse))])
       ELSE D1

\* chat.js:170-177
Finally(D, s) ==
    LET D1 == [D EXCEPT !.disabled = FALSE]
    IN IF D1.sm.isStreaming THEN CompleteStreaming(D1, s) ELSE D1

\* chat.js:167-169
Catch(D, msg, s) == AppendMessage(D, "error", SendErrPrefix \o msg, s)

Here == Doc(dom, elems, sm, inputDisabled, scrollTop)

Put(D) ==
    \E R \in {D} : \E G \in {Collect(R)} :
        /\ dom' = G.dom
        /\ elems' = G.elems
        /\ sm' = R.sm
        /\ inputDisabled' = R.disabled
        /\ scrollTop' = Clamp(R).scrollTop

Alive == hist.pc # "redirect"

(***************************************************************************)
(* Sending a message: ChatInterface.handleFormSubmit (chat.js:93-178).     *)
(***************************************************************************)
Started == Cardinality({s \in Sends : send[s].pc # "idle"})

InFlight(s) == send[s].pc \in {"fetch", "read"}

\* chat.js:93-126  up to the await of fetch; typed is messageInput.value
HandleFormSubmit(typed) ==
    LET messageText == GetCurrentMessage(typed)
        s == Started + 1
    IN IF messageText = <<>>
       THEN /\ inputValue' = typed
            /\ UNCHANGED <<docVars, inputDisabled, sessVars, send, hist, ops,
                           reads, dec, returned, tabs>>
       ELSE /\ s \in Sends
            /\ Put(AppendMessage([Here EXCEPT !.disabled = TRUE], "user", messageText, s))
            /\ inputValue' = <<>>
            /\ send' = [send EXCEPT ![s] = [IdleSend EXCEPT !.pc = "fetch",
                                               !.msg = messageText,
                                               !.sid = sessionId]]
            /\ UNCHANGED <<sessVars, hist, ops, reads, dec, returned, tabs>>

\* chat.js:52-55  the form's submit event (click on the enabled send button),
\* the user having typed `typed` into the enabled message input
ClickSend(typed) ==
    /\ Alive
    /\ ~inputDisabled
    /\ HandleFormSubmit(typed)

\* ui-manager.js:72-84  Enter / Ctrl+Enter in the enabled message input
KeyEnter(typed) ==
    /\ Alive
    /\ ~inputDisabled
    /\ HandleFormSubmit(typed)

Finished(r, outcome) ==
    [IdleSend EXCEPT !.pc = "done", !.outcome = outcome,
                     !.seen.late = r.seen.late, !.seen.shape = r.seen.shape,
                     !.seen.residue = (outcome = "eof" /\ r.buffer # <<>>)]

FetchOutcomes == {"ok", "401", "fail"}

\* chat.js:122-138 when fetch settles: a non-OK status or a rejection goes to
\* catch and finally, an OK response starts the streaming display.
FetchResponse(s, outcome) ==
    /\ Alive
    /\ send[s].pc = "fetch"
    /\ IF outcome = "ok"
       THEN /\ Put(StartStreaming(Here, s))
            /\ send' = [send EXCEPT ![s].pc = "read"]
       ELSE /\ Put(Finally(Catch(Here, <<outcome>>, s), s))
            /\ send' = [send EXCEPT ![s] = Finished(send[s], outcome)]
    /\ UNCHANGED <<inputValue, sessVars, hist, ops, reads, dec, returned, tabs>>

HeadPiece == SubSeq(PREFIX, 1, 3)

TailPiece(tok) == SubSeq(Line(tok), 4, Len(Line(tok)))

SendTokens == {"a", "b", "K", "E", "N", "u", "T", "M", "D", "U", "!"}

\* What one read may deliver: a line, two lines, or a line cut in two.
Fragments ==
    {Line(t) : t \in SendTokens}
    \cup {Line("a") \o Line("K"), Line("K") \o Line("a"), Line("!") \o Line("a")}
    \cup {HeadPiece, TailPiece("b")}

\* The streams of the page model.
PageFragments == {Line("a"), Line("K"), Line("E")}

\* chat.js:141-164  reader.read() resolves with data
ReadChunk(s, frag) ==
    /\ Alive
    /\ send[s].pc = "read"
    /\ reads < MaxReads
    /\ reads' = reads + 1
    /\ LET r == ProcessChunk(send[s].buffer, frag)
           X == HandleEvents([D |-> Here, seen |-> send[s].seen], r.events, s)
           lines == CompleteLines(Split(send[s].buffer \o frag))
           bad == \E i \in 1..Len(lines) : Malformed(lines[i])
       IN /\ Put(X.D)
          /\ send' = [send EXCEPT ![s].buffer = r.buffer,
                                  ![s].seen = [X.seen EXCEPT !.malformed = @ \/ bad]]
    /\ UNCHANGED <<inputValue, sessVars, hist, ops, dec, returned, tabs>>

\* Faulty variant of ReadDone: what is left in the buffer is handled as a
\* last line before the loop ends.
ReadDoneFlushes(s) ==
    /\ Alive
    /\ send[s].pc = "read"
    /\ LET X == HandleEvents([D |-> Here, seen |-> send[s].seen],
                             EventsOf(<<send[s].buffer>>), s)
       IN Put(Finally(X.D, s))
    /\ send' = [send EXCEPT ![s] = Finished(send[s], "eof")]
    /\ UNCHANGED <<inputValue, sessVars, hist, ops, reads, dec, returned, tabs>>

\* chat.js:143-145, 170-177  reader.read() resolves with done: the loop is
\* left at once, the buffer is not looked at
ReadDone(s) ==
    /\ Alive
    /\ send[s].pc = "read"
    /\ Put(Finally(Here, s))
    /\ send' = [send EXCEPT ![s] = Finished(send[s], "eof")]
    /\ UNCHANGED <<inputValue, sessVars, hist, ops, reads, dec, returned, tabs>>

\* chat.js:141, 167-177  reader.read() rejects
ReadFail(s) ==
    /\ Alive
    /\ send[s].pc = "read"
    /\ Put(Finally(Catch(Here, <<"r">>, s), s))
    /\ send' = [send EXCEPT ![s] = Finished(send[s], "readfail")]
    /\ UNCHANGED <<inputValue, sessVars, hist, ops, reads, dec, returned, tabs>>

(***************************************************************************)
(* The input control (ui-manager.js).                                      *)
(***************************************************************************)
\* ui-manager.js:173-187
ClearInput ==
    /\ inputValue' = <<>>
    /\ inputDisabled' = FALSE
    /\ UNCHANGED <<docVars, sessVars, send, hist, ops, reads, dec, returned, tabs>>

\* ui-manager.js:46-48  click on #clear-input-btn
ClickClearInput ==
    /\ Alive
    /\ ClearInput

\* ui-manager.js:86-92  Escape in the message input
KeyEscape ==
    /\ Alive
    /\ ~inputDisabled
    /\ ClearInput

(***************************************************************************)
(* The startup history load (history-manager.js:22-108), scheduled by      *)
(* ChatInterface.init (chat.js:72-74).                                     *)
(***************************************************************************)
HistOutcomes == {"ok", "401", "500", "fail"}

\* Faulty variant of SkipsHistory: the fresh-session flag is not consulted.
SkipsHistoryNever(isNew) == FALSE

\* history-manager.js:24  this.sessionManager.isNewSession()
SkipsHistory(isNew) == isNew

\* history-manager.js:22-51  the timer fires: skip, retry later, or request
LoadInitialHistory ==
    /\ Alive
    /\ hist.pc = "timer"
    /\ IF SkipsHistory(isNewSessionJustCreated)
       THEN /\ hist' = [hist EXCEPT !.pc = "done", !.skipped = TRUE]
            /\ UNCHANGED <<docVars, inputDisabled>>
       ELSE IF Falsy(sessionId)
       THEN /\ hist' = [hist EXCEPT !.retries = Min2(@ + 1, MaxRetries)]
            /\ UNCHANGED <<docVars, inputDisabled>>
       ELSE /\ Put([Here EXCEPT !.dom = LoadingIndicator])
            /\ hist' = [hist EXCEPT !.pc = "fetch1", !.requests = @ + 1,
                                    !.sid = sessionId]
    /\ UNCHANGED <<inputValue, sessVars, send, ops, reads, dec, returned, tabs>>

\* Faulty variant of HistoryResponse: after a successful response has been
\* written to the transcript, the fallback path is taken all the same.
HistoryResponseOkFallsThrough(outcome) ==
    /\ Alive
    /\ hist.pc = "fetch1"
    /\ CASE outcome = "ok" ->
              /\ Put(ScrollToBottom([Here EXCEPT !.dom = HistoryContent]))
              /\ hist' = [hist EXCEPT !.pc = "fetch2", !.requests = @ + 1,
                                      !.replaced = @ + 1, !.last = outcome,
                                      !.sid = sessionId]
         [] outcome = "401" ->
              /\ Put([Here EXCEPT !.dom = AuthenticationErrorPanel])
              /\ hist' = [hist EXCEPT !.pc = "done", !.last = outcome]
         [] OTHER ->
              /\ Put([Here EXCEPT !.dom = ClearMessages])
              /\ hist' = [hist EXCEPT !.pc = "fetch2", !.requests = @ + 1,
                                      !.last = outcome, !.sid = sessionId]
    /\ UNCHANGED <<inputValue, sessVars, send, ops, reads, dec, returned, tabs>>

\* history-manager.js:53-69, 72-91  the history request settles
HistoryResponse(outcome) ==
    /\ Alive
    /\ hist.pc = "fetch1"
    /\ CASE outcome = "ok" ->
              /\ Put(ScrollToBottom([Here EXCEPT !.dom = HistoryContent]))
              /\ hist' = [hist EXCEPT !.pc = "done", !.replaced = @ + 1, !.last = outcome]
         [] outcome = "401" ->
              /\ Put([Here EXCEPT !.dom = AuthenticationErrorPanel])
              /\ hist' = [hist EXCEPT !.pc = "done", !.last = outcome]
         [] OTHER ->
              /\ Put([Here EXCEPT !.dom = ClearMessages])
              /\ hist' = [hist EXCEPT !.pc = "fetch2", !.requests = @ + 1,
                                      !.last = outcome, !.sid = sessionId]
    /\ UNCHANGED <<inputValue, sessVars, send, ops, reads, dec, returned, tabs>>

\* Faulty variant of WelcomeResponse: when the second request fails too, the
\* transcript is left as it is (empty).
WelcomeResponseNoFallback(outcome) ==
    /\ Alive
    /\ hist.pc = "fetch2"
    /\ CASE outcome = "ok" ->
              /\ Put(ScrollToBottom([Here EXCEPT !.dom = HistoryContent]))
              /\ hist' = [hist EXCEPT !.pc = "done", !.replaced = @ + 1, !.last = outcome]
         [] outcome = "401" ->
              /\ hist' = [hist EXCEPT !.pc = "redirect", !.last = outcome]
              /\ UNCHANGED <<docVars, inputDisabled>>
         [] OTHER ->
              /\ hist' = [hist EXCEPT !.pc = "done", !.last = outcome]
              /\ UNCHANGED <<docVars, inputDisabled>>
    /\ UNCHANGED <<inputValue, sessVars, send, ops, reads, dec, returned, tabs>>

\* history-manager.js:93-107  the second request (showWelcomeMessage) settles
WelcomeResponse(outcome) ==
    /\ Alive
    /\ hist.pc = "fetch2"
    /\ CASE outcome = "ok" ->
              /\ Put(ScrollToBottom([Here EXCEPT !.dom = HistoryContent]))
              /\ hist' = [hist EXCEPT !.pc = "done", !.replaced = @ + 1, !.last = outcome]
         [] outcome = "401" ->
              /\ hist' = [hist EXCEPT !.pc = "redirect", !.last = outcome]
              /\ UNCHANGED <<docVars, inputDisabled>>
         [] OTHER ->
              /\ Put(ScrollToBottom([Here EXCEPT !.dom = WelcomePanel]))
              /\ hist' = [hist EXCEPT !.pc = "done", !.last = outcome]
    /\ UNCHANGED <<inputValue, sessVars, send, ops, reads, dec, returned, tabs>>

(***************************************************************************)
(* Clear chat and new chat session (history-manager.js:110-142,            *)
(* message-manager.js:209-233).                                            *)
(***************************************************************************)
\* Faulty variant of ClearChat: the stored id is not removed.
ClearChatKeepsItem(confirmed) ==
    /\ Alive
    /\ ~inputDisabled
    /\ ops.started < MaxOps
    /\ IF confirmed
       THEN /\ Put([Here EXCEPT !.dom = ClearMessages])
            /\ storage' = storage
            /\ ops' = [ops EXCEPT !.clearChat = @ + 1, !.started = @ + 1,
                                  !.before = sessionId, !.declined = FALSE]
       ELSE /\ ops' = [ops EXCEPT !.declined = TRUE]
            /\ UNCHANGED <<docVars, inputDisabled, storage>>
    /\ UNCHANGED <<inputValue, sessionId, isNewSessionJustCreated, nextNonce,
                   send, hist, reads, dec, returned, tabs>>

\* history-manager.js:110-116, message-manager.js:209-221  Ctrl+K in the
\* message input, up to the await of the clear-session request
ClearChat(confirmed) ==
    /\ Alive
    /\ ~inputDisabled
    /\ ops.started < MaxOps
    /\ IF confirmed
       THEN /\ Put([Here EXCEPT !.dom = ClearMessages])
            /\ storage' = Null
            /\ ops' = [ops EXCEPT !.clearChat = @ + 1, !.started = @ + 1,
                                  !.before = sessionId, !.declined = FALSE]
       ELSE /\ ops' = [ops EXCEPT !.declined = TRUE]
            /\ UNCHANGED <<docVars, inputDisabled, storage>>
    /\ UNCHANGED <<inputValue, sessionId, isNewSessionJustCreated, nextNonce,
                   send, hist, reads, dec, returned, tabs>>

\* history-manager.js:117-122, message-manager.js:179-183  after the
\* clear-session request settled, whatever its outcome
ClearChatResume(r1, r2) ==
    /\ Alive
    /\ ops.clearChat > 0
    /\ LET r == GetOrCreateSessionId(storage, nextNonce, r1, r2)
       IN /\ sessionId' = r.id
          /\ storage' = r.storage
          /\ nextNonce' = r.nonce
    /\ ops' = [ops EXCEPT !.clearChat = @ - 1]
    /\ UNCHANGED <<docVars, inputValue, inputDisabled, isNewSessionJustCreated,
                   send, hist, reads, dec, returned, tabs>>

\* Faulty variant of StartNewChatSession: the loading indicator is put up
\* before the dialog, and stays when the dialog is declined.
StartNewChatSessionLoadsFirst(confirmed) ==
    /\ Alive
    /\ ops.started < MaxOps
    /\ Put([Here EXCEPT !.dom = LoadingIndicator])
    /\ IF confirmed
       THEN /\ storage' = Null
            /\ ops' = [ops EXCEPT !.newChat = @ + 1, !.started = @ + 1,
                                  !.before = sessionId, !.declined = FALSE]
       ELSE /\ ops' = [ops EXCEPT !.declined = TRUE]
            /\ storage' = storage
    /\ UNCHANGED <<inputValue, sessionId, isNewSessionJustCreated, nextNonce,
                   send, hist, reads, dec, returned, tabs>>

\* history-manager.js:126-133, message-manager.js:209-221, 227-229  click on
\* #new-chat-btn, up to the await of the clear-session request
StartNewChatSession(confirmed) ==
    /\ Alive
    /\ ops.started < MaxOps
    /\ IF confirmed
       THEN /\ Put([Here EXCEPT !.dom = LoadingIndicator])
            /\ storage' = Null
            /\ ops' = [ops EXCEPT !.newChat = @ + 1, !.started = @ + 1,
                                  !.before = sessionId, !.declined = FALSE]
       ELSE /\ ops' = [ops EXCEPT !.declined = TRUE]
            /\ UNCHANGED <<docVars, inputDisabled, storage>>
    /\ UNCHANGED <<inputValue, sessionId, isNewSessionJustCreated, nextNonce,
                   send, hist, reads, dec, returned, tabs>>

\* message-manager.js:230-232, history-manager.js:135-140  after the
\* clear-session request settled, whatever its outcome
StartNewChatSessionResume(r1, r2) ==
    /\ Alive
    /\ ops.newChat > 0
    /\ LET r == GetOrCreateSessionId(storage, nextNonce, r1, r2)
       IN /\ sessionId' = r.id
          /\ storage' = r.storage
          /\ nextNonce' = r.nonce
    /\ isNewSessionJustCreated' = TRUE
    /\ Put(AppendMessage([Here EXCEPT !.dom = ClearMessages],
                          "assistant", NewSessionGreeting, 0))
    /\ ops' = [ops EXCEPT !.newChat = @ - 1, !.newDone = @ + 1]
    /\ UNCHANGED <<inputValue, send, hist, reads, dec, returned, tabs>>

(***************************************************************************)
(* The page: state after the ChatInterface constructor and init()          *)
(* (chat.js:3-75) have run, with the history load scheduled.               *)
(***************************************************************************)
DecIdle == [input |-> <<>>, pos |-> 0, buffer |-> <<>>, out |-> <<>>, cut |-> FALSE]

\* the random segment lengths drawn in the page model
PageRandLens == {11}

Init ==
    /\ dom = <<>>
    /\ elems = <<>>
    /\ sm = NewStreamingManager
    /\ scrollTop = 0
    /\ inputValue = <<>>
    /\ inputDisabled = FALSE
    /\ \E stored \in {Null, StoredId} : \E r1 \in PageRandLens, r2 \in PageRandLens :
          LET r == GetOrCreateSessionId(stored, 1, r1, r2)
          IN /\ storage = r.storage
             /\ sessionId = r.id
             /\ nextNonce = r.nonce
    /\ isNewSessionJustCreated = FALSE
    /\ send = [s \in Sends |-> IdleSend]
    /\ hist = NewHist
    /\ ops = NewOps
    /\ reads = 0
    /\ dec = DecIdle
    /\ returned = <<>>
    /\ tabs = NoTabs

\* The stream consumer and the input control: sends, their responses and
\* reads, and the keys and buttons of the input area.
NextStream ==
    \/ \E typed \in InputValues : ClickSend(typed)
    \/ \E typed \in InputValues : KeyEnter(typed)
    \/ \E s \in Sends : \E outcome \in FetchOutcomes : FetchResponse(s, outcome)
    \/ \E s \in Sends : \E frag \in Fragments : ReadChunk(s, frag)
    \/ \E s \in Sends : ReadDone(s)
    \/ \E s \in Sends : ReadFail(s)
    \/ ClickClearInput
    \/ KeyEscape

SpecStream == Init /\ [][NextStream]_vars

\* The page: startup history load, clear chat and new chat session, and sends
\* (one after the other, over the streams of PageFragments).
NextPage ==
    \/ \E typed \in InputValues : ClickSend(typed)
    \/ \E typed \in InputValues : KeyEnter(typed)
    \/ \E s \in Sends : \E outcome \in FetchOutcomes : FetchResponse(s, outcome)
    \/ \E s \in Sends : \E frag \in PageFragments : ReadChunk(s, frag)
    \/ \E s \in Sends : ReadDone(s)
    \/ \E s \in Sends : ReadFail(s)
    \/ KeyEscape
    \/ LoadInitialHistory
    \/ \E outcome \in HistOutcomes : HistoryResponse(outcome)
    \/ \E outcome \in HistOutcomes : WelcomeResponse(outcome)
    \/ \E confirmed \in BOOLEAN : ClearChat(confirmed)
    \/ \E r1 \in PageRandLens, r2 \in PageRandLens : ClearChatResume(r1, r2)
    \/ \E confirmed \in BOOLEAN : StartNewChatSession(confirmed)
    \/ \E r1 \in PageRandLens, r2 \in PageRandLens : StartNewChatSessionResume(r1, r2)

SpecPage == Init /\ [][NextPage]_vars

\* Sends over the streams of PageFragments, under the scheduling of the
\* network: a pending request settles, and a stream that is being read ends
\* (end of stream or failure).
NextSend ==
    \/ \E typed \in InputValues : ClickSend(typed)
    \/ \E typed \in InputValues : KeyEnter(typed)
    \/ \E s \in Sends : \E outcome \in FetchOutcomes : FetchResponse(s, outcome)
    \/ \E s \in Sends : \E frag \in PageFragments : ReadChunk(s, frag)
    \/ \E s \in Sends : ReadDone(s)
    \/ \E s \in Sends : ReadFail(s)
    \/ ClickClearInput
    \/ KeyEscape

FairStream ==
    /\ Init
    /\ [][NextSend]_vars
    /\ \A s \in Sends : WF_vars(\E outcome \in FetchOutcomes : FetchResponse(s, outcome))
    /\ \A s \in Sends : WF_vars(ReadDone(s) \/ ReadFail(s))

(***************************************************************************)
(* The viewer and the scroll position: sends one after the other, over     *)
(* streams whose chunks may hold a line break, while the viewer scrolls    *)
(* the transcript.                                                         *)
(***************************************************************************)
\* where the viewer may scroll to: distances from the bottom, in pixels
ScrollDistances == {0, 60, 100}

\* the viewer scrolls the transcript (wheel, touch or scroll bar): the
\* position that message-manager.js:85 reads
UserScroll(d) ==
    /\ Alive
    /\ d <= MaxScrollTop(Here)
    /\ scrollTop' = MaxScrollTop(Here) - d
    /\ UNCHANGED <<dom, elems, sm, inputValue, inputDisabled, sessVars, send,
                   hist, ops, reads, dec, returned, tabs>>

ScrollFragments == {Line("a"), Line("l"), Line("K")}

NextScroll ==
    \/ \E typed \in InputValues : ClickSend(typed)
    \/ \E s \in Sends : \E outcome \in FetchOutcomes : FetchResponse(s, outcome)
    \/ \E s \in Sends : \E frag \in ScrollFragments : ReadChunk(s, frag)
    \/ \E s \in Sends : ReadDone(s)
    \/ \E s \in Sends : ReadFail(s)
    \/ \E d \in ScrollDistances : UserScroll(d)

SpecScroll == Init /\ [][NextScroll]_vars

(***************************************************************************)
(* Streams that end in the middle of a line: sends one after the other,    *)
(* whose reads deliver an event line, an event line without its line feed, *)
(* or a line feed.                                                         *)
(***************************************************************************)
\* a serialized event without its terminator
Unterminated(tok) == PREFIX \o <<tok>>

ResidueFragments ==
    {Line("a"), <<NL>>} \cup {Unterminated(t) : t \in {"a", "K", "E"}}

NextResidue ==
    \/ \E typed \in InputValues : ClickSend(typed)
    \/ \E s \in Sends : \E outcome \in FetchOutcomes : FetchResponse(s, outcome)
    \/ \E s \in Sends : \E frag \in ResidueFragments : ReadChunk(s, frag)
    \/ \E s \in Sends : ReadDone(s)
    \/ \E s \in Sends : ReadFail(s)

SpecResidue == Init /\ [][NextResidue]_vars

(***************************************************************************)
(* The page after an earlier send whose stream ended without any text      *)
(* (chat.js:93-178 run once: user message, startStreaming, end of stream,  *)
(* completeStreaming from the finally block), and the sends that follow,   *)
(* one after the other.  The entries of the earlier send carry send 0.     *)
(***************************************************************************)
EarlierEmptySend ==
    Finally(StartStreaming(
                AppendMessage(Doc(<<>>, <<>>, NewStreamingManager, TRUE, 0),
                              "user", <<"h">>, 0), 0), 0)

LaterInit ==
    /\ dom = EarlierEmptySend.dom
    /\ elems = EarlierEmptySend.elems
    /\ sm = EarlierEmptySend.sm
    /\ scrollTop = EarlierEmptySend.scrollTop
    /\ inputValue = <<>>
    /\ inputDisabled = EarlierEmptySend.disabled
    /\ storage = StoredId
    /\ sessionId = StoredId
    /\ nextNonce = 1
    /\ isNewSessionJustCreated = FALSE
    /\ send = [s \in Sends |-> IdleSend]
    /\ hist = NewHist
    /\ ops = NewOps
    /\ reads = 0
    /\ dec = DecIdle
    /\ returned = <<>>
    /\ tabs = NoTabs

LaterFragments == {Line("a"), Line("b"), Line("K")}

LaterNext ==
    \/ \E typed \in InputValues : ClickSend(typed)
    \/ \E s \in Sends : \E outcome \in FetchOutcomes : FetchResponse(s, outcome)
    \/ \E s \in Sends : \E frag \in LaterFragments : ReadChunk(s, frag)
    \/ \E s \in Sends : ReadDone(s)
    \/ \E s \in Sends : ReadFail(s)

SpecLater == LaterInit /\ [][LaterNext]_vars

(***************************************************************************)
(* The read loop on its own: an input text fed in arbitrary fragments.     *)
(***************************************************************************)
DecTokens == {"a", "K", "!"}

\* the lines of an input text: event lines and a blank line
DecLines == {Line(t) : t \in DecTokens} \cup {<<NL>>}

\* what may follow the last complete line: nothing, or an unterminated line
DecTails == {<<>>, PREFIX \o <<"a">>}

RECURSIVE DecTexts(_)
DecTexts(n) ==
    IF n = 0 THEN {<<>>}
    ELSE DecTexts(n - 1) \cup {l \o t : l \in DecLines, t \in DecTexts(n - 1)}

DecInit ==
    /\ dom = <<>>
    /\ elems = <<>>
    /\ sm = NewStreamingManager
    /\ scrollTop = 0
    /\ inputValue = <<>>
    /\ inputDisabled = FALSE
    /\ storage = Null
    /\ sessionId = Null
    /\ nextNonce = 1
    /\ isNewSessionJustCreated = FALSE
    /\ send = [s \in Sends |-> IdleSend]
    /\ hist = NewHist
    /\ ops = NewOps
    /\ reads = 0
    /\ returned = <<>>
    /\ tabs = NoTabs
    /\ \E t \in DecTexts(MaxDecLines) : \E tail \in DecTails :
          dec = [input |-> t \o tail, pos |-> 0, buffer |-> <<>>, out |-> <<>>,
                 cut |-> FALSE]

\* chat.js:141-164  one read delivering the next k characters
DecFeed(k) ==
    /\ dec.pos + k <= Len(dec.input)
    /\ LET chunk == SubSeq(dec.input, dec.pos + 1, dec.pos + k)
           r == ProcessChunk(dec.buffer, chunk)
       IN dec' = [dec EXCEPT !.pos = @ + k,
                             !.buffer = r.buffer,
                             !.out = @ \o r.events,
                             !.cut = @ \/ chunk[k] # NL]
    /\ UNCHANGED <<docVars, inputValue, inputDisabled, sessVars, send, hist, ops,
                   reads, returned, tabs>>

DecNext == \E k \in 1..(Len(PREFIX) + 2) * (MaxDecLines + 1) : DecFeed(k)

SpecDecoder == DecInit /\ [][DecNext]_vars

(***************************************************************************)
(* SessionManager on its own: resolve, reset and startNew in any order,    *)
(* from any content of the storage key.                                    *)
(***************************************************************************)
StorageContents == {Null, EmptyString, ShortId, StoredId}

SessInit ==
    /\ dom = <<>>
    /\ elems = <<>>
    /\ sm = NewStreamingManager
    /\ scrollTop = 0
    /\ inputValue = <<>>
    /\ inputDisabled = FALSE
    /\ storage \in StorageContents
    /\ sessionId = Null
    /\ nextNonce = 1
    /\ isNewSessionJustCreated = FALSE
    /\ send = [s \in Sends |-> IdleSend]
    /\ hist = NewHist
    /\ ops = NewOps
    /\ reads = 0
    /\ dec = DecIdle
    /\ returned = <<>>
    /\ tabs = NoTabs

\* message-manager.js:179-183  initialize(): resolve and remember the id
SessInitialize(r1, r2) ==
    /\ Len(returned) < MaxResolves
    /\ LET r == GetOrCreateSessionId(storage, nextNonce, r1, r2)
       IN /\ sessionId' = r.id
          /\ storage' = r.storage
          /\ nextNonce' = r.nonce
          /\ returned' = Append(returned, r.id)
    /\ UNCHANGED <<docVars, inputValue, inputDisabled, isNewSessionJustCreated,
                   send, hist, ops, reads, dec, tabs>>

\* what the notification POST /api/chat/clear-session may do: succeed, answer
\* with an error status, or fail at the network level (fetch rejects)
NotifyOutcomes == {"ok", "500", "fail"}

\* Faulty variant of ResetChatSessionReturn: a network failure is propagated.
ResetRethrows(outcome) ==
    [outcome |-> outcome,
     result |-> IF outcome = "fail" THEN "threw" ELSE "returned"]

\* message-manager.js:214-225  how resetChatSession ends: the response is not
\* inspected, and a rejection of fetch is caught and logged
ResetChatSessionReturn(outcome) ==
    [outcome |-> outcome, result |-> "returned"]

\* message-manager.js:209-221  resetChatSession() up to the await of the
\* notification: the item is removed first
SessReset ==
    /\ ops.started < MaxResets
    /\ storage' = Null
    /\ returned' = <<>>
    /\ ops' = [ops EXCEPT !.started = @ + 1, !.clearChat = @ + 1]
    /\ UNCHANGED <<docVars, inputValue, inputDisabled, sessionId,
                   isNewSessionJustCreated, nextNonce, send, hist, reads, dec, tabs>>

\* message-manager.js:214-225  the notification settles and resetChatSession
\* returns
SessResetSettle(outcome) ==
    /\ ops.clearChat > 0
    /\ ops' = [ops EXCEPT !.clearChat = @ - 1,
                          !.reset = ResetChatSessionReturn(outcome)]
    /\ UNCHANGED <<docVars, inputValue, inputDisabled, sessVars, send, hist,
                   reads, dec, returned, tabs>>

\* message-manager.js:227-229  startNewSession() up to the end of its reset
SessStartNew ==
    /\ ops.started < MaxResets
    /\ storage' = Null
    /\ returned' = <<>>
    /\ ops' = [ops EXCEPT !.started = @ + 1, !.newChat = @ + 1]
    /\ UNCHANGED <<docVars, inputValue, inputDisabled, sessionId,
                   isNewSessionJustCreated, nextNonce, send, hist, reads, dec, tabs>>

\* message-manager.js:230-232  startNewSession() after its reset
SessStartNewResume(r1, r2) ==
    /\ ops.newChat > 0
    /\ Len(returned) < MaxResolves
    /\ LET r == GetOrCreateSessionId(storage, nextNonce, r1, r2)
       IN /\ sessionId' = r.id
          /\ storage' = r.storage
          /\ nextNonce' = r.nonce
          /\ returned' = Append(returned, r.id)
    /\ isNewSessionJustCreated' = TRUE
    /\ ops' = [ops EXCEPT !.newChat = @ - 1, !.newDone = @ + 1]
    /\ UNCHANGED <<docVars, inputValue, inputDisabled, send, hist, reads, dec, tabs>>

SessNext ==
    \/ \E r1 \in RandLens, r2 \in RandLens : SessInitialize(r1, r2)
    \/ SessReset
    \/ \E outcome \in NotifyOutcomes : SessResetSettle(outcome)
    \/ SessStartNew
    \/ \E r1 \in RandLens, r2 \in RandLens : SessStartNewResume(r1, r2)

SpecSession == SessInit /\ [][SessNext]_vars

(***************************************************************************)
(* HistoryManager.loadInitialHistory on its own, over a SessionManager     *)
(* that has been constructed and whose initialize() completes at any       *)
(* moment, or never.                                                       *)
(***************************************************************************)
HistInit ==
    /\ dom = <<>>
    /\ elems = <<>>
    /\ sm = NewStreamingManager
    /\ scrollTop = 0
    /\ inputValue = <<>>
    /\ inputDisabled = FALSE
    /\ storage \in StorageContents
    /\ sessionId = Null
    /\ nextNonce = 1
    /\ isNewSessionJustCreated = FALSE
    /\ send = [s \in Sends |-> IdleSend]
    /\ hist = NewHist
    /\ ops = NewOps
    /\ reads = 0
    /\ dec = DecIdle
    /\ returned = <<>>
    /\ tabs = NoTabs

HistNext ==
    \/ LoadInitialHistory
    \/ \E outcome \in HistOutcomes : HistoryResponse(outcome)
    \/ \E outcome \in HistOutcomes : WelcomeResponse(outcome)
    \/ \E r1 \in RandLens, r2 \in RandLens : SessInitialize(r1, r2)

SpecHistory == HistInit /\ [][HistNext]_vars

(***************************************************************************)
(* The tabs of one origin: each has its own SessionManager, all share the  *)
(* localStorage item.  A tab resolves its id at page load and again after  *)
(* each reset; the getItem and the setItem of one call are separate steps, *)
(* so that calls of different tabs interleave.                             *)
(***************************************************************************)
TabsInit ==
    /\ dom = <<>>
    /\ elems = <<>>
    /\ sm = NewStreamingManager
    /\ scrollTop = 0
    /\ inputValue = <<>>
    /\ inputDisabled = FALSE
    /\ storage \in {Null, StoredId}
    /\ sessionId = Null
    /\ nextNonce = 1
    /\ isNewSessionJustCreated = FALSE
    /\ send = [s \in Sends |-> IdleSend]
    /\ hist = NewHist
    /\ ops = NewOps
    /\ reads = 0
    /\ dec = DecIdle
    /\ returned = <<>>
    /\ tabs = NoTabs

\* message-manager.js:188  localStorage.getItem in tab t
TabResolveRead(t) ==
    /\ tabs[t].pc \in {"start", "reset"}
    /\ tabs' = [tabs EXCEPT ![t].pc = "resolving", ![t].read = storage]
    /\ UNCHANGED <<docVars, inputValue, inputDisabled, sessVars, send, hist, ops,
                   reads, dec, returned>>

\* message-manager.js:190-206, 180, 230  the rest of getOrCreateSessionId in
\* tab t (generation and setItem when the value read was falsy), and the
\* assignment of the result to this.sessionId
TabResolveWrite(t, r1, r2) ==
    /\ tabs[t].pc = "resolving"
    /\ LET r == GetOrCreateSessionId(tabs[t].read, nextNonce, r1, r2)
           generated == Falsy(tabs[t].read)
       IN /\ storage' = IF generated THEN r.storage ELSE storage
          /\ nextNonce' = r.nonce
          /\ tabs' = [tabs EXCEPT ![t].pc = "ready",
                                  ![t].sessionId = r.id,
                                  ![t].clobbered = @ \/ (generated /\ ~Falsy(storage))]
    /\ UNCHANGED <<docVars, inputValue, inputDisabled, sessionId,
                   isNewSessionJustCreated, send, hist, ops, reads, dec, returned>>

\* message-manager.js:209-211  resetChatSession in tab t (from clearChat or
\* startNewSession): removeItem; the tab resolves again afterwards
TabReset(t) ==
    /\ tabs[t].pc = "ready"
    /\ ops.started < MaxResets
    /\ storage' = Null
    /\ tabs' = [tabs EXCEPT ![t].pc = "reset"]
    /\ ops' = [ops EXCEPT !.started = @ + 1]
    /\ UNCHANGED <<docVars, inputValue, inputDisabled, sessionId,
                   isNewSessionJustCreated, nextNonce, send, hist, reads, dec,
                   returned>>

TabsNext ==
    \/ \E t \in Tabs : TabResolveRead(t)
    \/ \E t \in Tabs : \E r1 \in PageRandLens, r2 \in PageRandLens : TabResolveWrite(t, r1, r2)
    \/ \E t \in Tabs : TabReset(t)

SpecTabs == TabsInit /\ [][TabsNext]_vars

(***************************************************************************)
(* Properties.                                                             *)
(***************************************************************************)
Count(d, role, s) ==
    Cardinality({i \in 1..Len(d) : d[i].role = role /\ d[i].send = s})

ReadFailNode(s) == Node("error", SendErrPrefix \o <<"r">>, 0, s)

\* C1: once a complete or error event has been processed for a send, a chunk
\* event delivered later for that send changes nothing in the transcript (no
\* pending entry created, no text appended).
C1_TerminationAbsorbing == \A s \in Sends : ~send[s].seen.late

\* C2: the transcript never holds more than one pending (uncommitted
\* streaming) entry; stated here for the behaviours in which no chunk has
\* arrived after a terminal event and no two sends are in flight together.
C2_AtMostOnePending ==
    (/\ \A s \in Sends : ~send[s].seen.late
     /\ Cardinality({s \in Sends : InFlight(s)}) <= 1)
        => Cardinality(PendingIdx(dom)) <= 1

\* The step in which a send that has received one or more chunks, and no
\* complete or error event, ends with a failed read.
MidStreamFailure(s) ==
    /\ send[s].pc = "read"
    /\ send[s].seen.shape = "chunks"
    /\ send'[s].pc = "done"
    /\ send'[s].outcome = "readfail"

C4_BoundaryIndependence ==
    dec.pos = Len(dec.input) =>
        /\ dec.out = ProcessChunk(<<>>, dec.input).events
        /\ dec.buffer = ProcessChunk(<<>>, dec.input).buffer

\* A text of two events or more, consumed to its end with a cut inside a line.
C4_Witness ==
    /\ dec.pos = Len(dec.input)
    /\ dec.cut
    /\ Len(dec.out) >= 2

\* The step in which a send whose stream was one or more chunks followed by
\* complete finishes at the end of the stream.
HappyEnd(s) ==
    /\ send[s].pc = "read"
    /\ send[s].seen.shape = "happy"
    /\ send'[s].pc = "done"
    /\ send'[s].outcome = "eof"

\* C5: when such a send finishes, the transcript ends with an assistant
\* message holding the send's chunk texts in arrival order, the send's one
\* user message (with the submitted text) comes before it, and the send left
\* no error message and no pending entry.
C5_HappyPath ==
    [][\A s \in Sends : HappyEnd(s) =>
            /\ dom' # <<>>
            /\ dom'[Len(dom')].role = "assistant"
            /\ dom'[Len(dom')].content = send[s].seen.chunks
            /\ Count(dom', "user", s) = 1
            /\ \A i \in 1..Len(dom') :
                  (dom'[i].role = "user" /\ dom'[i].send = s)
                      => dom'[i].content = send[s].msg
            /\ Count(dom', "error", s) = 0
            /\ Count(dom', "pending", s) = 0]_vars

\* C6: resolve() calls with no reset in between all return the same id, and
\* that id is at least 33 characters long, whatever the storage key held.
C6_IdempotentResolve ==
    \A i \in 1..Len(returned) :
        /\ returned[i] = returned[1]
        /\ returned[i].len >= MinIdLen

\* C7: every send that passed the empty-input check finishes once its
\* request and its stream settle, and the step that finishes it (the finally
\* block) leaves the input enabled.
C7_InputRestored ==
    /\ \A s \in Sends : InFlight(s) ~> (send[s].pc = "done")
    /\ [][\A s \in Sends : (InFlight(s) /\ send'[s].pc = "done") => ~inputDisabled']_vars

\* A send that failed and left the input enabled.
C7_Witness ==
    \E s \in Sends :
        /\ send[s].pc = "done"
        /\ send[s].outcome \in {"401", "fail", "readfail"}
        /\ ~inputDisabled

\* C8: while a send is in flight the input stays disabled, and no two sends
\* are in flight together.
C8_NoConcurrentSends ==
    /\ \A s \in Sends : InFlight(s) => inputDisabled
    /\ Cardinality({s \in Sends : InFlight(s)}) <= 1

\* C9: when the history timer fires after a new session was started, no
\* history request is issued and the load is over.
C9_FreshSessionSkip ==
    [][(hist.pc = "timer" /\ hist'.pc # "timer" /\ ops.newDone > 0) =>
            /\ hist'.requests = hist.requests
            /\ hist'.requests = 0
            /\ hist'.pc = "done"
            /\ docVars' = docVars]_vars

\* The history load skipped after a new session, no request having been made.
C9_Witness ==
    /\ ops.newDone > 0
    /\ hist.pc = "done"
    /\ hist.skipped
    /\ hist.requests = 0

\* C10: once the startup logic has skipped the history load, the fresh flag
\* is cleared.
C10_FlagConsumed == hist.skipped => ~isNewSessionJustCreated

\* C14: when resetChatSession returns, it returns normally whatever the
\* notification did (success, error status, network failure), the step leaves
\* the storage key as it was, and the persisted id is absent unless an id was
\* resolved while the notification was awaited.
C14_ResetSucceedsLocally ==
    [][(ops'.clearChat < ops.clearChat) =>
            /\ ops'.reset.result = "returned"
            /\ storage' = storage
            /\ (returned = <<>> => storage' = Null)]_vars

\* A reset whose notification failed at the network level has returned
\* normally, and no id is persisted.
C14_Witness ==
    /\ ops.reset = [outcome |-> "fail", result |-> "returned"]
    /\ ops.clearChat = 0
    /\ returned = <<>>
    /\ storage = Null

\* C13: a resolve() returns the persisted id only when that id is valid (at
\* least 33 characters); when the stored value is absent, empty or shorter,
\* it returns and persists a newly generated id of at least 33 characters.
C13_ResolveValidates ==
    [][(Len(returned') = Len(returned) + 1) =>
            LET id == returned'[Len(returned')]
            IN IF storage.len >= MinIdLen
               THEN id = storage /\ storage' = storage
               ELSE /\ id.len >= MinIdLen
                    /\ id # storage
                    /\ storage' = id]_vars

\* C11: whenever no reset and no resolve is in progress in any tab, the id
\* every tab tags its requests with is the persisted id; stated here for the
\* behaviours in which no tab stored a generated id over a persisted one.
C11_CrossTabIdentity ==
    (\A t \in Tabs : tabs[t].pc = "ready" /\ ~tabs[t].clobbered)
        => \A t \in Tabs : tabs[t].sessionId = storage

\* C12: when the tabs have resolved their ids concurrently, with no reset
\* at all, on empty storage and in any interleaving of their storage reads
\* and writes, every tab's id is the id that is persisted afterwards.
C12_ConcurrentResolve ==
    (ops.started = 0 /\ \A t \in Tabs : tabs[t].pc = "ready")
        => \A t \in Tabs : tabs[t].sessionId = storage

\* The step in which a send processes an `error` event as its first terminal
\* event.
ErrorEventStep(s) ==
    /\ send[s].pc = "read"
    /\ send'[s].pc = "read"
    /\ ~send[s].seen.settled
    /\ send'[s].seen.settled
    /\ Count(dom', "error", s) > Count(dom, "error", s)

\* C15: when a send processes an `error` event, with or without chunks before
\* it, its pending entry is discarded (neither left in the transcript nor
\* promoted to an assistant message) and exactly one error message is
\* appended.
C15_ErrorDiscardsPending ==
    [][\A s \in Sends : ErrorEventStep(s) =>
            /\ Count(dom', "pending", s) = 0
            /\ Count(dom', "assistant", s) = Count(dom, "assistant", s)
            /\ Count(dom', "error", s) = Count(dom, "error", s) + 1
            /\ dom'[Len(dom')].role = "error"]_vars

\* C16: once a send has settled, no pending entry of it remains in the
\* transcript.
C16_PendingResolved ==
    \A s \in Sends : send[s].pc = "done" => Count(dom, "pending", s) = 0

\* A step that completes the streaming display while the pending entry is in
\* the transcript and has accumulated text, no chunk text arriving in the
\* same step.
PromotionStep ==
    /\ sm.isStreaming
    /\ ~sm'.isStreaming
    /\ FinalText(Here) # <<>>
    /\ IsChild(dom, sm.streamingResponse)
    /\ \A s \in Sends :
          send'[s].pc = "read" => send'[s].seen.chunks = send[s].seen.chunks

\* C17: on completion with accumulated text, the assistant message stands at
\* the position the pending entry occupied, every other entry keeps its
\* position, and nothing but error messages is added after them.
C17_PromotionInPlace ==
    [][PromotionStep =>
            LET i == CHOOSE k \in 1..Len(dom) :
                        dom[k].role = "pending" /\ dom[k].eid = sm.streamingResponse
            IN /\ Len(dom') >= Len(dom)
               /\ dom'[i].role = "assistant"
               /\ dom'[i].content = FinalText(Here)
               /\ \A j \in 1..Len(dom) : j # i => dom'[j] = dom[j]
               /\ \A j \in (Len(dom) + 1)..Len(dom') : dom'[j].role = "error"]_vars

\* A pending entry that had received two chunks was promoted where it stood,
\* before the error message appended ahead of the promotion.
C17_Witness ==
    \E s \in Sends : \E i \in 1..Len(dom) :
        /\ send[s].outcome = "readfail"
        /\ send[s].seen.shape = "chunks"
        /\ i < Len(dom)
        /\ dom[i].role = "assistant"
        /\ dom[i].send = s
        /\ Len(dom[i].content) = 2
        /\ dom[i + 1].role = "error"
        /\ dom[i + 1].send = s

\* C18: no send has started (no user message appended, no streaming begun)
\* while the startup history load has not finished.
C18_HistoryBeforeStreaming ==
    hist.pc \in {"timer", "fetch1", "fetch2"} => \A s \in Sends : send[s].pc = "idle"

\* The step in which the request of a send is answered with status 401.
Send401Step(s) ==
    /\ send[s].pc = "fetch"
    /\ send'[s].pc = "done"
    /\ send'[s].outcome = "401"

\* C20: a 401 response to a send is not turned into a generic error entry of
\* the transcript (it is routed to the authentication-required state).
C20_SendAuthFailure ==
    [][\A s \in Sends : Send401Step(s) =>
            Count(dom', "error", s) = Count(dom, "error", s)]_vars

\* The step in which the startup history load ends: a response settles and
\* no further request is pending.
HistoryLoadEnds ==
    /\ hist.pc \in {"fetch1", "fetch2"}
    /\ hist'.pc \notin {"fetch1", "fetch2"}

C21_OneErrorPerFailedSend ==
    \A s \in Sends :
        /\ Count(dom, "error", s) <= 1
        /\ (send[s].pc = "done" /\ send[s].outcome \in {"401", "fail", "readfail"})
              => Count(dom, "error", s) = 1

\* The viewer's distance from the bottom of the transcript.
Dist == DistanceFromBottom(Here)

\* A read of send s that processed chunk text and no terminal event.
ChunkStep(s) ==
    /\ send[s].pc = "read"
    /\ send'[s].pc = "read"
    /\ send'[s].seen.chunks # send[s].seen.chunks
    /\ send'[s].seen.settled = send[s].seen.settled

\* C22: a chunk processed while the viewer is more than 70 pixels away from
\* the bottom leaves the scroll position unchanged; a chunk processed while
\* the viewer is at most 70 pixels away scrolls to the bottom; appending a
\* user message scrolls to the bottom.
C22_ScrollAsymmetry ==
    [][\A s \in Sends :
          /\ (ChunkStep(s) /\ Dist > Threshold) => scrollTop' = scrollTop
          /\ (ChunkStep(s) /\ Dist <= Threshold) => Dist' = 0
          /\ (send[s].pc = "idle" /\ send'[s].pc = "fetch") => Dist' = 0]_vars

\* A step of a handler that changed the transcript and brought the viewer
\* to the bottom.
AutoScrolled ==
    /\ <<dom, elems>>' # <<dom, elems>>
    /\ scrollTop' # scrollTop
    /\ Dist' = 0

\* C23: a change of the transcript scrolls to the bottom only when it
\* appends a user or an error message, or when the viewer was at most 70
\* pixels away from the bottom before the change: creating the pending
\* entry, appending chunk text and promoting the pending entry do not move a
\* viewer who is further away.
C23_SmartScrollPolicy ==
    [][AutoScrolled =>
          \/ Dist <= Threshold
          \/ \E s \in Sends : Count(dom', "user", s) > Count(dom, "user", s)
          \/ \E s \in Sends : Count(dom', "error", s) > Count(dom, "error", s)]_vars

\* A value made of white space only (the empty value included).
Blank(v) == \A i \in 1..Len(v) : v[i] = " "

\* C24: handleFormSubmit on an empty or white-space-only input issues no
\* request (no send starts) and leaves the transcript, the scroll position,
\* the input-disabled state, the stream state and the session unchanged.
C24_EmptyInputRejected ==
    [][\A typed \in InputValues :
          (Blank(typed) /\ HandleFormSubmit(typed)) =>
              /\ UNCHANGED <<dom, elems, sm, scrollTop>>
              /\ UNCHANGED <<inputDisabled, send, reads, sessVars>>]_vars

\* A white-space-only input was submitted: it is still in the input, nothing
\* was sent and the transcript is empty.
C24_Witness ==
    /\ inputValue = <<" ">>
    /\ \A s \in Sends : send[s].pc = "idle"
    /\ dom = <<>>
    /\ ~inputDisabled

\* C25: the step of handleFormSubmit that issues the request of a send has
\* appended the send's user message, with the submitted text, at the end of
\* the transcript; and, the user not having asked to clear the chat or to
\* start a new session, that message is in the transcript, once, in every
\* later state of the send, however its request and its stream end.
C25_OptimisticUserAppend ==
    [][\A s \in Sends :
          /\ (send[s].pc = "idle" /\ send'[s].pc = "fetch") =>
                /\ send'[s].msg # <<>>
                /\ dom' = Append(dom, [role |-> "user", content |-> send'[s].msg,
                                       eid |-> 0, send |-> s])
          /\ (send[s].pc # "idle" /\ ops'.started = 0) =>
                Count(dom', "user", s) = 1]_vars

\* C26: the request of every send carries a session id, and that id is the
\* id persisted in the storage at the moment the request is issued, also
\* while a clear-chat or a new-session operation is in progress.
C26_SendCarriesPersistedId ==
    [][\A s \in Sends :
          (send[s].pc = "idle" /\ send'[s].pc = "fetch") =>
              /\ ~Falsy(send'[s].sid)
              /\ send'[s].sid = storage]_vars

\* C27: a prefixed line whose payload cannot be parsed is skipped: read on
\* its own it changes nothing in the transcript, the stream state, the input
\* and the send (which goes on reading); read together with a well-formed
\* chunk line that follows it, the step is the very step that the chunk line
\* alone would have caused, and no error message is added.
C27_MalformedNonFatal ==
    [][\A s \in Sends :
          /\ (send[s].buffer = <<>> /\ ReadChunk(s, Line("!"))) =>
                /\ UNCHANGED <<dom, elems, sm, scrollTop, inputDisabled>>
                /\ send'[s].pc = "read"
                /\ send'[s].buffer = <<>>
                /\ send'[s].seen.chunks = send[s].seen.chunks
          /\ (send[s].buffer = <<>> /\ ReadChunk(s, Line("!") \o Line("a"))) =>
                /\ send'[s].pc = "read"
                /\ send'[s].seen.chunks = Append(send[s].seen.chunks, "a")
                /\ Count(dom', "error", s) = Count(dom, "error", s)
                /\ inputDisabled' = inputDisabled
                /\ LET D == HandleStreamingEvent(Here, Event("chunk", <<"a">>, <<>>), s)
                   IN /\ dom' = Collect(D).dom
                      /\ elems' = Collect(D).elems
                      /\ sm' = D.sm
                      /\ scrollTop' = Clamp(D).scrollTop]_vars

\* After a single read, which delivered an unparseable line followed by a
\* chunk line, the send is still reading and the chunk's text stands in a
\* pending entry.
C27_Witness ==
    \E s \in Sends :
        /\ reads = 1
        /\ send[s].pc = "read"
        /\ send[s].seen.malformed
        /\ send[s].seen.chunks = <<"a">>
        /\ \E i \in 1..Len(dom) :
              /\ dom[i].role = "pending"
              /\ elems[dom[i].eid].text = <<"a">>
        /\ \A i \in 1..Len(dom) : dom[i].role # "error"

\* The events of the terminated lines among the first k characters of a
\* text, read off the text line by line: a line is what stands between two
\* line feeds (or before the first), and it yields its event when it begins
\* with the prefix and its payload parses.
RECURSIVE LineEventsUpTo(_, _)
LineEventsUpTo(text, k) ==
    IF k = 0 THEN <<>>
    ELSE LET before == LineEventsUpTo(text, k - 1)
             feeds == {j \in 1..(k - 1) : text[j] = NL}
             start == IF feeds = {} THEN 0
                      ELSE CHOOSE j \in feeds : \A i \in feeds : i <= j
             line == SubSeq(text, start + 1, k - 1)
             payload == SubSeq(line, 7, Len(line))
         IN IF text[k] # NL THEN before
            ELSE IF Len(line) >= 6
                    /\ SubSeq(line, 1, 6) = <<"d", "a", "t", "a", ":", " ">>
                    /\ JSONParse(payload) # ParseError
            THEN Append(before, JSONParse(payload))
            ELSE before

\* C28: whatever the cuts between the reads, at every moment the events
\* handed over so far are exactly the events of the terminated prefixed lines
\* received so far, one per line, in the order of the lines.
C28_OrderPreserved == dec.out = LineEventsUpTo(dec.input, dec.pos)

\* A text holding a chunk line and then a complete line, consumed to its end
\* with a cut inside a line: the chunk event and then the complete event
\* were handed over.
C28_Witness ==
    /\ dec.pos = Len(dec.input)
    /\ dec.cut
    /\ Len(dec.out) = 2
    /\ dec.out[1].event_type = "chunk"
    /\ dec.out[2].event_type = "complete"

Flipped ==
    \E e \in 1..Len(elems') :
        /\ elems'[e].thinkingHidden
        /\ ~elems'[e].textHidden
        /\ (e > Len(elems) \/ ~elems[e].thinkingHidden)

\* C30: within one send the thinking placeholder is replaced by the text
\* area in the step that handles the send's first chunk and in no step that
\* handles a later chunk; and while a send that is reading has received no
\* chunk and no terminal event, its pending entry shows the placeholder and
\* hides the text area.
C30_FirstChunkFlipOnce ==
    [][\A s \in Sends :
          /\ \A t \in {"a", "b"} :
                (send[s].buffer = <<>> /\ ReadChunk(s, Line(t))) =>
                    (Flipped <=> send[s].seen.chunks = <<>>)
          /\ (send'[s].pc = "read" /\ send'[s].seen.chunks = <<>>
                /\ ~send'[s].seen.settled) =>
                \E i \in 1..Len(dom') :
                    /\ dom'[i].role = "pending"
                    /\ dom'[i].send = s
                    /\ ~elems'[dom'[i].eid].thinkingHidden
                    /\ elems'[dom'[i].eid].textHidden]_vars

\* The payload tokens of the events that the handler only acknowledges, and
\* of an event of a type it does not know.
QuietTokens == {"N", "u", "T", "M", "D", "U"}

\* C31: a connected, user-message, thinking, message-complete or disconnected
\* event, or an event of an unknown type, read in any state of a send's
\* stream, leaves the stream state, every pending entry and its text, the
\* transcript, the scroll position and the input as they were, and the send
\* goes on reading.
C31_ObservabilityEventsInert ==
    [][\A s \in Sends : \A t \in QuietTokens :
          (send[s].buffer = <<>> /\ ReadChunk(s, Line(t))) =>
              /\ UNCHANGED <<dom, elems, sm, scrollTop, inputDisabled>>
              /\ send'[s].pc = "read"
              /\ send'[s].seen.settled = send[s].seen.settled
              /\ send'[s].seen.chunks = send[s].seen.chunks
              /\ send'[s].seen.quiet]_vars

\* A send that has processed a chunk and an event that is only acknowledged
\* is still streaming, with the chunk's text in its pending entry.
C31_Witness ==
    \E s \in Sends :
        /\ send[s].pc = "read"
        /\ send[s].seen.quiet
        /\ ~send[s].seen.settled
        /\ send[s].seen.chunks = <<"a">>
        /\ sm.isStreaming
        /\ \E i \in 1..Len(dom) :
              /\ dom[i].role = "pending"
              /\ elems[dom[i].eid].text = <<"a">>

\* The step in which the stream of send s ends while text that no line feed
\* has terminated is in the buffer.
EndsWithResidue(s) ==
    /\ send[s].pc = "read"
    /\ send[s].buffer # <<>>
    /\ send'[s].pc = "done"
    /\ send'[s].outcome = "eof"

\* C32: when the stream ends with unterminated text in the buffer, that text
\* reaches nothing, whatever event it would have made with its line feed: the
\* step is the step that the end of the stream causes with an empty buffer.
\* No entry is added to the transcript, every committed entry stays as it
\* is, and a pending entry either stays with its text or is promoted with
\* exactly the text that had been accumulated before.
C32_ResidueDiscarded ==
    [][\A s \in Sends : EndsWithResidue(s) =>
          /\ Len(dom') = Len(dom)
          /\ \A i \in 1..Len(dom) :
                IF dom[i].role = "pending"
                THEN \/ /\ dom'[i] = dom[i]
                        /\ elems'[dom[i].eid].text = elems[dom[i].eid].text
                     \/ /\ dom'[i].role = "assistant"
                        /\ dom'[i].content = FinalText(Here)
                ELSE dom'[i] = dom[i]
          /\ LET D == Finally(Here, s)
             IN /\ dom' = Collect(D).dom
                /\ elems' = Collect(D).elems
                /\ sm' = D.sm
                /\ inputDisabled' = D.disabled]_vars

\* A stream delivered a chunk line and then an unterminated line, and ended:
\* the transcript is the user message and the assistant message with the
\* text of the chunk line alone.
C32_Witness ==
    \E s \in Sends :
        /\ send[s].pc = "done"
        /\ send[s].outcome = "eof"
        /\ send[s].seen.residue
        /\ send[s].seen.shape = "chunks"
        /\ Len(dom) = 2
        /\ dom[1].role = "user"
        /\ dom[2] = Node("assistant", <<"a">>, 0, s)

\* C33: during one page load the transcript is replaced by a history
\* snapshot of the server (setContent) at most once, whatever the outcomes
\* of the history request and of the request of the fallback path, and
\* whatever the user does meanwhile.
C33_ReconciledOnce == hist.replaced <= 1

\* The first history request failed, the request of the fallback path
\* brought the snapshot, and the transcript has grown behind the snapshot
\* since.
C33_Witness ==
    /\ hist.pc = "done"
    /\ hist.requests = 2
    /\ hist.replaced = 1
    /\ Len(dom) > 1
    /\ dom[1].role = "history"

\* The chunk texts send s has received when a step is over (the record of a
\* send is emptied by the step that finishes it).
ChunksAfterStep(s) ==
    IF send'[s].pc = "read" THEN send'[s].seen.chunks ELSE send[s].seen.chunks

\* The texts send s may have received at some moment of a step: what it had
\* received before the step, and what it has received in it, line by line.
ChunksDuringStep(s) ==
    {SubSeq(ChunksAfterStep(s), 1, k) :
        k \in Len(send[s].seen.chunks)..Len(ChunksAfterStep(s))}

\* C34: whatever sends came before and however they ended, an assistant
\* message committed for a send holds exactly the texts of the chunks that
\* send has received, in arrival order, and no text of an earlier send;
\* stated for the sends that receive no chunk after a terminal event.
C34_PerSendIsolation ==
    [][\A s \in Sends : \A i \in 1..Len(dom') :
          (/\ dom'[i].role = "assistant"
           /\ dom'[i].send = s
           /\ (i > Len(dom) \/ dom[i].role # "assistant")
           /\ ~send'[s].seen.late)
              => dom'[i].content \in ChunksDuringStep(s)]_vars

\* The committed messages of a transcript, in document order.
Committed(d) == SelectSeq(d, LAMBDA n : n.role # "pending")

IsPrefix(a, b) == Len(a) <= Len(b) /\ SubSeq(b, 1, Len(a)) = a

\* C35: under sends, the committed messages keep their content and their
\* order and new ones come after them; and the only entry whose text
\* changes is the pending entry of the send in progress (the element that
\* startStreaming created last).
C35_CommittedImmutable ==
    [][/\ IsPrefix(Committed(dom), Committed(dom'))
       /\ \A e \in 1..Len(elems) :
             (IsChild(dom, e) /\ IsChild(dom', e)
                /\ elems'[e].text # elems[e].text)
                 => e = sm'.streamingResponse]_vars

\* C36: whatever the events of a send (an error followed by a complete, a
\* repeated complete, chunks after a terminal event) and with the cleanup of
\* the finally block, the send commits at most one assistant message.
C36_AtMostOneAssistant ==
    \A s \in Sends : Count(dom, "assistant", s) <= 1

\* The step in which the request of send s fails: a non-OK status, or a
\* rejection of fetch.
SendRequestFails(s) ==
    /\ send[s].pc = "fetch"
    /\ send'[s].pc = "done"
    /\ send'[s].outcome \in {"401", "fail"}

\* C37: when the request of a send fails, the stream state is and stays
\* not-streaming, no pending entry has been created for the send, no
\* assistant message is committed, and the transcript grows by exactly one
\* entry, the error message of that send, which comes after the send's user
\* message; the input is enabled again.
C37_NonOkResponse ==
    [][\A s \in Sends : SendRequestFails(s) =>
          /\ ~sm.isStreaming
          /\ sm' = sm
          /\ Count(dom', "pending", s) = 0
          /\ Count(dom', "assistant", s) = 0
          /\ dom' = Append(dom, Node("error", SendErrPrefix \o <<send'[s].outcome>>, 0, s))
          /\ Count(dom, "user", s) = 1
          /\ ~inputDisabled']_vars

\* C38: when a confirmed clearChat or startNewChatSession completes, an id
\* is persisted, it is not the id that was current before the action, and
\* it is the in-memory id that getCurrentSessionId returns; the fresh flag
\* is set by the completion of startNewChatSession, left as it was by the
\* completion of clearChat, and never set unless a startNewChatSession has
\* completed.
C38_SessionReplaced ==
    [][/\ (ops'.clearChat < ops.clearChat \/ ops'.newChat < ops.newChat) =>
             /\ ~Falsy(storage')
             /\ storage' # ops.before
             /\ sessionId' = storage'
       /\ (ops'.newChat < ops.newChat) => isNewSessionJustCreated'
       /\ (ops'.clearChat < ops.clearChat) =>
             isNewSessionJustCreated' = isNewSessionJustCreated
       /\ isNewSessionJustCreated' => ops'.newDone > 0]_vars

\* A confirmed clearChat has completed over a session that an earlier page
\* load had persisted: a new id is persisted and current, and the fresh flag
\* is not set.
C38_Witness ==
    /\ ops.started = 1
    /\ ops.clearChat = 0
    /\ ops.newChat = 0
    /\ ops.newDone = 0
    /\ ops.before = StoredId
    /\ ~Falsy(storage)
    /\ storage # StoredId
    /\ sessionId = storage
    /\ ~isNewSessionJustCreated

\* C39: when the user declines the confirmation dialog of clearChat or of
\* startNewChatSession, the persisted id, the in-memory id, the fresh flag,
\* the transcript and the input are unchanged, and no request is issued: no
\* clear-session notification is awaited, and no send or history request
\* begins.
C39_DeclinedIsNoOp ==
    [][(~ops.declined /\ ops'.declined) =>
          /\ UNCHANGED <<storage, sessionId, isNewSessionJustCreated, nextNonce>>
          /\ UNCHANGED <<dom, elems, sm, scrollTop, inputValue, inputDisabled>>
          /\ UNCHANGED <<send, hist, reads>>
          /\ ops' = [ops EXCEPT !.declined = TRUE]]_vars

\* The user has declined a dialog after the history was loaded: the
\* snapshot is still in the transcript, the persisted id is still the id of
\* the earlier page load and the in-memory id, and no operation has begun.
C39_Witness ==
    /\ ops.declined
    /\ ops.started = 0
    /\ ops.clearChat = 0
    /\ ops.newChat = 0
    /\ dom = HistoryContent
    /\ storage = StoredId
    /\ sessionId = StoredId
    /\ ~isNewSessionJustCreated

\* C40: once a startNewChatSession has begun, no history request is issued
\* for the id that was current before it; and once it has completed and the
\* greeting of the new session is shown, the transcript is not replaced by
\* the history that was requested for that earlier id.
C40_NewSessionVsHistoryLoad ==
    [][/\ (hist'.requests > hist.requests /\ ops.newChat + ops.newDone > 0)
             => hist'.sid # ops.before
       /\ (hist'.replaced > hist.replaced /\ ops.newDone > 0)
             => hist.sid # ops.before]_vars

====
